---- MODULE Spec2Model ----
(***************************************************************************)
(* GrumpiMiner test executor (grumpi_miner/test_executor.py).              *)
(*                                                                         *)
(* One behaviour is one call of TestExecutor.execute_test,                 *)
(* TestExecutor.execute_batch (sequential or with a ThreadPoolExecutor) or *)
(* TestExecutor.execute_with_callback.  The predicate (test_function) and  *)
(* the observer (callback) are caller code: what they return or raise is   *)
(* chosen nondeterministically at the step where they are called.          *)
(***************************************************************************)
EXTENDS Integers, Sequences, FiniteSets, Bags, TLC

\* ---------------------------------------------------------------- bounds
MaxLen == 2          \* longest input list of combinations
MaxWorkers == 2      \* largest max_workers
MaxTimeout == 2      \* largest timeout passed to execute_test
MaxDuration == 3     \* longest run of one predicate invocation (SpecTimed)
MaxResults == 2      \* most results appended to a suite (SpecSuite)
MaxClock == 1        \* latest reading of the clock (SpecSuite)
MaxCompletes == 2    \* most mark_complete calls on a suite (SpecSuite)
NumDims == 3         \* classes of DIMENSION_CLASSES in use (SpecGen)
MaxCap == 2          \* largest max_per_dimension (SpecGen)
MaxTotal == 5        \* largest max_total_combinations (SpecGen)
MaxSamples == 4      \* largest samples_per_size (SpecGen)

\* ------------------------------------------------------------ value sets
\* The combinations are opaque to the executor: it only passes them on.
Combos == {"c1", "c2"}

\* Messages an exception of the predicate is constructed with: every
\* class with a message, ValueError also without one (raise ValueError()).
MsgsOf(k) == IF k = "ValueError" THEN {"", "boom"} ELSE {"boom"}

\* Exception classes the predicate raises.  KeyboardInterrupt derives from
\* BaseException only, the other three from Exception.
ErrKinds == {"ValueError", "KeyError", "TimeoutError", "KeyboardInterrupt"}

Modes == {"test", "sequential", "parallel", "callback"}

\* Optional[T]: None is the empty sequence, a value v is <<v>>.
None == << >>
Some(v) == <<v>>

TestStatus == {"pending", "running", "passed", "failed", "skipped", "error"}

\* What one invocation of the predicate does: return a boolean or raise.
Returns(b) == [raised |-> FALSE, value |-> b, kind |-> "", msg |-> ""]
Raises(k, m) == [raised |-> TRUE, value |-> FALSE, kind |-> k, msg |-> m]
Outcomes == {Returns(b) : b \in BOOLEAN} \cup
            UNION {{Raises(k, m) : m \in MsgsOf(k)} : k \in ErrKinds}

\* ------------------------------------------------------- pure functions
\* str(n) of a non-negative int, as the f-string formats it.
Digits == <<"0", "1", "2", "3", "4", "5", "6", "7", "8", "9">>
RECURSIVE IntToStr(_)
IntToStr(n) == IF n < 10 THEN Digits[n + 1]
               ELSE IntToStr(n \div 10) \o Digits[(n % 10) + 1]

\* f"{timeout}" for timeout: Optional[float].
FormatTimeout(t) == IF t = None THEN "None" ELSE IntToStr(t[1])

\* f"Test timed out after {timeout}s"
TimeoutMessage(t) == "Test timed out after " \o FormatTimeout(t) \o "s"

\* str(e) for an exception built with the single argument m:
\* KeyError.__str__ is the repr of its argument, the others return it.
StrOfException(k, m) == IF k = "KeyError" THEN "'" \o m \o "'" ELSE m

\* issubclass(kind, TimeoutError) and issubclass(kind, Exception)
IsTimeoutError(k) == k = "TimeoutError"
IsException(k) == k \in {"ValueError", "KeyError", "TimeoutError"}

\* Variant: execute_test with the except TimeoutError clause only.
CaughtTimeoutOnly(o) == o.raised => IsTimeoutError(o.kind)

\* The except clause of execute_test that handles the outcome o, if any.
Caught(o) == o.raised => IsTimeoutError(o.kind) \/ IsException(o.kind)

\* Variant: status = PASSED whenever the predicate returns.
StatusAfterAnyReturn(o) == IF ~o.raised THEN "passed" ELSE "error"

\* status after the try statement of execute_test
StatusAfter(o) ==
    IF ~o.raised THEN (IF o.value THEN "passed" ELSE "failed")
    ELSE "error"

\* Variant: error_message = type(e).__name__ in the except Exception clause.
ErrorMessageTypeName(o, t) ==
    IF ~o.raised THEN None
    ELSE IF IsTimeoutError(o.kind) THEN Some(TimeoutMessage(t))
    ELSE Some(o.kind)

\* Variant: error_message = str(e) or None
ErrorMessageOrNone(o, t) ==
    IF ~o.raised THEN None
    ELSE IF IsTimeoutError(o.kind) THEN Some(TimeoutMessage(t))
    ELSE IF StrOfException(o.kind, o.msg) = "" THEN None
    ELSE Some(StrOfException(o.kind, o.msg))

\* error_message after the try statement of execute_test
ErrorMessageAfter(o, t) ==
    IF ~o.raised THEN None
    ELSE IF IsTimeoutError(o.kind) THEN Some(TimeoutMessage(t))
    ELSE Some(StrOfException(o.kind, o.msg))

\* TestResult(combination=..., status=..., error_message=...); src is the
\* position of the input element the execution was started for.
TestResult(c, s, e, i) ==
    [combination |-> c, status |-> s, error_message |-> e, src |-> i]

VARIABLES
    mode,           \* which entry point is called
    combinations,   \* the input list
    max_workers,    \* execute_batch's max_workers
    timeout,        \* execute_test's timeout argument (test mode)
    pc,             \* position of the calling thread
    idx,            \* loop index of the calling thread (1-based)
    suite,          \* the TestSuite of the call
    completes,      \* number of mark_complete calls so far
    ex,             \* per input element: the locals of its execute_test
    result,         \* the caller's local variable `result`
    fstate,         \* per input element: state of its Future
    queue,          \* the pool's work queue (FIFO of input positions)
    worker,         \* per pool thread: -1 not started, 0 idle, i running i
    done0,          \* as_completed: futures already finished at its start
    waiter,         \* as_completed: futures finished since, oldest first
    installed,      \* as_completed: its waiter is installed on the futures
    yielded,        \* as_completed: futures yielded so far
    calls,          \* input positions in the order the predicate was called
    cbcalls,        \* results the observer was called with, in order
    error,          \* the exception propagating to the caller ("" if none)
    now,            \* the wall clock
    generator,      \* the CombinationGenerator object
    call,           \* the generator or reporter call made last
    returned        \* what generator and reporter calls returned

vars == <<mode, combinations, max_workers, timeout, pc, idx, suite,
          completes, ex, result, fstate, queue, worker, done0, waiter,
          installed, yielded, calls, cbcalls, error, now, generator, call,
          returned>>

inputs == <<mode, combinations, max_workers, timeout>>
pool == <<fstate, queue, worker, done0, waiter, installed, yielded>>
lib == <<generator, call, returned>>

\* CombinationGenerator() over the registry in use; no call made yet.
NoGenerator == [min_dimensions |-> 2, max_dimensions |-> NumDims]
NoCall == [fn |-> ""]

N == Len(combinations)

SeqsUpTo(S, n) == UNION {[1..k -> S] : k \in 0..n}

NoOutcome == Returns(FALSE)
NoResult == TestResult("", "pending", None, 0)

\* The timeout execute_test runs with: only a direct call can pass one,
\* execute_batch and execute_with_callback call execute_test(combo).
TimeoutArg == IF mode = "test" THEN timeout ELSE None

\* Variant: the futures dict keyed by the combination, so that equal
\* combinations share one entry.
FuturesByCombination ==
    {i \in 1..N : \A j \in (i + 1)..N : combinations[j] /= combinations[i]}

\* The keys of the futures dict: one Future object per submit call.
Futures == 1..N

Init ==
    /\ mode \in Modes
    /\ combinations \in SeqsUpTo(Combos, MaxLen)
    /\ mode = "test" => Len(combinations) = 1
    /\ max_workers \in 1..MaxWorkers
    /\ mode /= "parallel" => max_workers = 1
    /\ timeout \in {None} \cup {Some(t) : t \in 1..MaxTimeout}
    /\ mode /= "test" => timeout = None
    /\ pc = "call"
    /\ idx = 1
    /\ suite = [results |-> << >>, start_time |-> None, end_time |-> None]
    /\ completes = 0
    /\ ex = [i \in 1..Len(combinations) |->
                [status |-> "none", error_message |-> None,
                 outcome |-> NoOutcome, start_time |-> 0,
                 execution_time |-> 0]]
    /\ result = NoResult
    /\ fstate = [i \in 1..Len(combinations) |-> "NONE"]
    /\ queue = << >>
    /\ worker = [j \in 1..MaxWorkers |-> -1]
    /\ done0 = {}
    /\ waiter = << >>
    /\ installed = FALSE
    /\ yielded = {}
    /\ calls = << >>
    /\ cbcalls = << >>
    /\ error = ""
    /\ now = 0
    /\ generator = NoGenerator
    /\ call = NoCall
    /\ returned = None

\* ------------------------------------------------------------ TestSuite
\* TestSuite(name=suite_name): start_time is datetime.now()
NewSuite == [results |-> << >>, start_time |-> Some(now), end_time |-> None]

\* Variant: results.insert(0, result)
add_result_front(s, r) == [s EXCEPT !.results = <<r>> \o @]

\* TestSuite.add_result
add_result(s, r) == [s EXCEPT !.results = Append(@, r)]

\* TestSuite.mark_complete
mark_complete(s) == [s EXCEPT !.end_time = Some(now)]

\* --------------------------------------------------------- execute_test
\* The thread that executes the execute_test of input element i.
Runs(i) ==
    IF mode = "parallel" THEN \E j \in 1..MaxWorkers : worker[j] = i
    ELSE pc = "exec" /\ idx = i

\* start_time = time.time(); status = TestStatus.PENDING (and the other
\* locals)
BeginTest(i) ==
    ex' = [ex EXCEPT ![i] = [status |-> "pending", error_message |-> None,
                             outcome |-> NoOutcome, start_time |-> now,
                             execution_time |-> 0]]

\* status = TestStatus.RUNNING; self.test_function(combination) is called
Invoke(i) ==
    /\ Runs(i)
    /\ ex[i].status = "pending"
    /\ ex' = [ex EXCEPT ![i].status = "running"]
    /\ calls' = Append(calls, i)
    /\ UNCHANGED <<inputs, lib, pc, idx, suite, completes, result, pool,
                   cbcalls, error, now>>

\* The locals of execute_test once the predicate has returned or raised
\* with outcome o and the matching branch has run; now' is the clock that
\* execution_time = time.time() - start_time reads.
AfterTry(i, o) ==
    [status |-> IF Caught(o) THEN StatusAfter(o) ELSE "running",
     error_message |-> IF Caught(o) THEN ErrorMessageAfter(o, TimeoutArg)
                       ELSE None,
     outcome |-> o,
     start_time |-> ex[i].start_time,
     execution_time |-> now' - ex[i].start_time]

\* The TestResult execute_test returns from the locals l for element i.
ResultOf(i, l) == TestResult(combinations[i], l.status, l.error_message, i)

\* Variant: an invocation that raises is tried again.
FinishSeqRetry(i) ==
    /\ mode /= "parallel"
    /\ Runs(i)
    /\ ex[i].status = "running"
    /\ now' = now + 1
    /\ \E o \in Outcomes :
        IF o.raised
           THEN /\ ex' = [ex EXCEPT ![i].status = "pending"]
                /\ UNCHANGED <<result, pc, error>>
           ELSE /\ ex' = [ex EXCEPT ![i] = AfterTry(i, o)]
                /\ result' = ResultOf(i, AfterTry(i, o))
                /\ pc' = IF mode = "test" THEN "returned" ELSE "add"
                /\ error' = error
    /\ UNCHANGED <<inputs, lib, idx, suite, completes, pool, calls, cbcalls>>

\* The predicate returns or raises in a sequential call after running for
\* d units of time: execute_test returns its TestResult to the caller, or
\* the exception no clause handles propagates out of the call.
FinishSeqAfter(i, d) ==
    /\ mode /= "parallel"
    /\ Runs(i)
    /\ ex[i].status = "running"
    /\ now' = now + d
    /\ \E o \in Outcomes :
        /\ ex' = [ex EXCEPT ![i] = AfterTry(i, o)]
        /\ IF Caught(o)
              THEN /\ result' = ResultOf(i, AfterTry(i, o))
                   /\ pc' = IF mode = "test" THEN "returned" ELSE "add"
                   /\ error' = error
              ELSE /\ result' = result
                   /\ pc' = "raised"
                   /\ error' = o.kind
    /\ UNCHANGED <<inputs, lib, idx, suite, completes, pool, calls, cbcalls>>

\* The same with the clock of Spec, which ticks once per invocation.
FinishSeq(i) == FinishSeqAfter(i, 1)

\* The predicate returns or raises, with an outcome of O, in a pool
\* thread: the Future gets the TestResult or the exception, the waiter of
\* as_completed is told, and the thread goes back to the work queue.
FinishParWith(i, O) ==
    /\ mode = "parallel"
    /\ Runs(i)
    /\ ex[i].status = "running"
    /\ now' = now + 1
    /\ \E o \in O : ex' = [ex EXCEPT ![i] = AfterTry(i, o)]
    /\ fstate' = [fstate EXCEPT ![i] = "FINISHED"]
    /\ worker' = [j \in 1..MaxWorkers |->
                     IF worker[j] = i THEN 0 ELSE worker[j]]
    /\ waiter' = IF installed THEN Append(waiter, i) ELSE waiter
    /\ UNCHANGED <<inputs, lib, pc, idx, suite, completes, result, queue, done0,
                   installed, yielded, calls, cbcalls, error>>

FinishPar(i) == FinishParWith(i, Outcomes)

\* --------------------------------------------------- the calling thread
\* execute_test(combination, timeout) called directly.
CallTest ==
    /\ pc = "call" /\ mode = "test"
    /\ BeginTest(1)
    /\ pc' = "exec"
    /\ UNCHANGED <<inputs, lib, idx, suite, completes, result, pool, calls,
                   cbcalls, error, now>>

\* suite = TestSuite(name=suite_name)
CallBatch ==
    /\ pc = "call" /\ mode /= "test"
    /\ suite' = NewSuite
    /\ pc' = IF mode = "parallel" THEN "submit" ELSE "loop"
    /\ UNCHANGED <<inputs, lib, idx, completes, ex, result, pool, calls,
                   cbcalls, error, now>>

\* for combo in combinations: result = self.execute_test(combo) ...
LoopNext ==
    /\ pc = "loop"
    /\ IF idx <= N
          THEN BeginTest(idx) /\ pc' = "exec"
          ELSE ex' = ex /\ pc' = "complete"
    /\ UNCHANGED <<inputs, lib, idx, suite, completes, result, pool, calls,
                   cbcalls, error, now>>

\* Variant: suite.mark_complete() inside the loop body.
AddResultThenComplete ==
    /\ pc = "add"
    /\ suite' = mark_complete(add_result(suite, result))
    /\ completes' = completes + 1
    /\ IF mode = "callback"
          THEN pc' = "callback" /\ idx' = idx
          ELSE pc' = "loop" /\ idx' = idx + 1
    /\ UNCHANGED <<inputs, lib, ex, result, pool, calls, cbcalls, error, now>>

\* suite.add_result(result)
AddResult ==
    /\ pc = "add"
    /\ suite' = add_result(suite, result)
    /\ IF mode = "callback"
          THEN pc' = "callback" /\ idx' = idx
          ELSE pc' = "loop" /\ idx' = idx + 1
    /\ UNCHANGED <<inputs, lib, completes, ex, result, pool, calls, cbcalls,
                   error, now>>

\* Variant: the observer is told about passed results only.
CallbackPassedOnly ==
    /\ pc = "callback"
    /\ cbcalls' = IF result.status = "passed" THEN Append(cbcalls, result)
                  ELSE cbcalls
    /\ pc' = "loop" /\ error' = error /\ idx' = idx + 1
    /\ UNCHANGED <<inputs, lib, suite, completes, ex, result, pool, calls, now>>

\* Variant: an exception of the observer is kept and the loop goes on.
CallbackContinues ==
    /\ pc = "callback"
    /\ cbcalls' = Append(cbcalls, result)
    /\ \E raises \in BOOLEAN :
          /\ error' = IF raises THEN "CallbackError" ELSE error
          /\ pc' = "loop" /\ idx' = idx + 1
    /\ UNCHANGED <<inputs, lib, suite, completes, ex, result, pool, calls, now>>

\* callback(result): the observer returns, or raises and nothing catches
Callback ==
    /\ pc = "callback"
    /\ cbcalls' = Append(cbcalls, result)
    /\ \E raises \in BOOLEAN :
          IF raises
             THEN pc' = "raised" /\ error' = "CallbackError" /\ idx' = idx
             ELSE pc' = "loop" /\ error' = error /\ idx' = idx + 1
    /\ UNCHANGED <<inputs, lib, suite, completes, ex, result, pool, calls, now>>

\* suite.mark_complete(); return suite
MarkComplete ==
    /\ pc = "complete"
    /\ suite' = mark_complete(suite)
    /\ completes' = completes + 1
    /\ pc' = "returned"
    /\ UNCHANGED <<inputs, lib, idx, ex, result, pool, calls, cbcalls, error,
                   now>>

\* ------------------------------------------------------- the thread pool
Idle == {j \in 1..MaxWorkers : worker[j] = 0}
\* Variant: threads are started without regard to max_workers.
NotStartedAny == {j \in 1..MaxWorkers : worker[j] = -1}

NotStarted == {j \in 1..max_workers : worker[j] = -1}
Min(S) == CHOOSE x \in S : \A y \in S : x <= y

\* executor.submit(self.execute_test, combo): a new Future is queued and
\* a thread is started when none is idle and fewer than max_workers run.
Submit ==
    /\ pc = "submit" /\ idx <= N
    /\ fstate' = [fstate EXCEPT ![idx] = "PENDING"]
    /\ queue' = Append(queue, idx)
    /\ worker' = IF Idle = {} /\ NotStarted /= {}
                    THEN [worker EXCEPT ![Min(NotStarted)] = 0]
                    ELSE worker
    /\ idx' = idx + 1
    /\ UNCHANGED <<inputs, lib, pc, suite, completes, ex, result, done0, waiter,
                   installed, yielded, calls, cbcalls, error, now>>

\* A pool thread takes the oldest work item and starts its execute_test.
WorkerTake(j) ==
    /\ mode = "parallel"
    /\ worker[j] = 0
    /\ queue /= << >>
    /\ worker' = [worker EXCEPT ![j] = Head(queue)]
    /\ queue' = Tail(queue)
    /\ fstate' = [fstate EXCEPT ![Head(queue)] = "RUNNING"]
    /\ BeginTest(Head(queue))
    /\ UNCHANGED <<inputs, lib, pc, idx, suite, completes, result, done0, waiter,
                   installed, yielded, calls, cbcalls, error, now>>

\* concurrent.futures.as_completed(futures) starts: the futures already
\* finished are set aside and a waiter is installed on the others.
AsCompleted ==
    /\ pc = "submit" /\ idx > N
    /\ done0' = {f \in Futures : fstate[f] = "FINISHED"}
    /\ installed' = TRUE
    /\ pc' = "collect"
    /\ UNCHANGED <<inputs, lib, idx, suite, completes, ex, result, fstate, queue,
                   worker, waiter, yielded, calls, cbcalls, error, now>>

\* Variant: the locals of execute_test kept on the executor, shared by the
\* pool threads, so that a result carries those of the latest invocation.
TakeShared(f) ==
    /\ yielded' = yielded \cup {f}
    /\ result' = ResultOf(f, ex[calls[Len(calls)]])
    /\ suite' = add_result(suite, ResultOf(f, ex[calls[Len(calls)]]))
    /\ UNCHANGED <<pc, error>>

\* future.result() of the future f that as_completed yields, then
\* suite.add_result(result); an exception held by f is raised instead.
Take(f) ==
    /\ yielded' = yielded \cup {f}
    /\ IF ~Caught(ex[f].outcome)
          THEN /\ error' = ex[f].outcome.kind
               /\ pc' = "unwind"
               /\ UNCHANGED <<suite, result>>
          ELSE /\ result' = ResultOf(f, ex[f])
               /\ suite' = add_result(suite, ResultOf(f, ex[f]))
               /\ UNCHANGED <<pc, error>>

\* Variant: the futures that finish during the iteration are yielded
\* newest first.
CollectNewestFirst ==
    /\ pc = "collect"
    /\ yielded /= Futures
    /\ \/ /\ done0 /= {}
          /\ \E f \in done0 : Take(f) /\ done0' = done0 \ {f}
          /\ waiter' = waiter
       \/ /\ done0 = {}
          /\ waiter /= << >>
          /\ Take(waiter[Len(waiter)])
          /\ waiter' = SubSeq(waiter, 1, Len(waiter) - 1)
          /\ done0' = done0
    /\ UNCHANGED <<inputs, lib, idx, completes, ex, fstate, queue, worker,
                   installed, calls, cbcalls, now>>

\* for future in as_completed(futures): the futures finished at the start
\* come first (in the order of a set), then the others as they finish.
Collect ==
    /\ pc = "collect"
    /\ yielded /= Futures
    /\ \/ /\ done0 /= {}
          /\ \E f \in done0 : Take(f) /\ done0' = done0 \ {f}
          /\ waiter' = waiter
       \/ /\ done0 = {}
          /\ waiter /= << >>
          /\ Take(Head(waiter))
          /\ waiter' = Tail(waiter)
          /\ done0' = done0
    /\ UNCHANGED <<inputs, lib, idx, completes, ex, fstate, queue, worker,
                   installed, calls, cbcalls, now>>

\* The pool has nothing queued and nothing running.
PoolQuiet == queue = << >> /\ \A j \in 1..MaxWorkers : worker[j] <= 0

\* as_completed is exhausted; the with block exits: shutdown(wait=True)
Shutdown ==
    /\ pc = "collect"
    /\ yielded = Futures
    /\ PoolQuiet
    /\ pc' = "complete"
    /\ UNCHANGED <<inputs, lib, idx, suite, completes, ex, result, pool, calls,
                   cbcalls, error, now>>

\* The with block exits on an exception: shutdown(wait=True) lets the
\* queued work finish, then the exception reaches the caller.
Unwind ==
    /\ pc = "unwind"
    /\ PoolQuiet
    /\ pc' = "raised"
    /\ UNCHANGED <<inputs, lib, idx, suite, completes, ex, result, pool, calls,
                   cbcalls, error, now>>

Next ==
    \/ CallTest
    \/ CallBatch
    \/ LoopNext
    \/ \E i \in 1..N : Invoke(i)
    \/ \E i \in 1..N : FinishSeq(i)
    \/ \E i \in 1..N : FinishPar(i)
    \/ AddResult
    \/ Callback
    \/ MarkComplete
    \/ Submit
    \/ \E j \in 1..MaxWorkers : WorkerTake(j)
    \/ AsCompleted
    \/ Collect
    \/ Shutdown
    \/ Unwind

Spec == Init /\ [][Next]_vars

\* --------------------------------------------- the pool under fairness
\* A parallel execute_batch whose predicate returns or raises an exception
\* nothing handles, with threads that the scheduler does not starve and a
\* predicate that comes back from every invocation.
PoolOutcomes == {Returns(TRUE), Raises("KeyboardInterrupt", "boom")}

InitPool ==
    /\ Init
    /\ mode = "parallel"
    /\ \A k \in 1..N : combinations[k] = "c1"

FinishPool(i) == FinishParWith(i, PoolOutcomes)

PoolMain ==
    CallBatch \/ Submit \/ AsCompleted \/ Collect \/ Shutdown \/ Unwind
        \/ MarkComplete

PoolWorker(j) ==
    \/ WorkerTake(j)
    \/ \E i \in 1..N : worker[j] = i /\ (Invoke(i) \/ FinishPool(i))

NextPool ==
    \/ CallBatch
    \/ Submit
    \/ \E j \in 1..MaxWorkers : WorkerTake(j)
    \/ \E i \in 1..N : Invoke(i)
    \/ \E i \in 1..N : FinishPool(i)
    \/ AsCompleted
    \/ Collect
    \/ Shutdown
    \/ Unwind
    \/ MarkComplete

SpecPool ==
    /\ InitPool
    /\ [][NextPool]_vars
    /\ WF_vars(PoolMain)
    /\ \A j \in 1..MaxWorkers : WF_vars(PoolWorker(j))

\* ------------------------------------------- execute_test against a clock
\* A direct call execute_test(combination, timeout) whose predicate runs for
\* 1..MaxDuration seconds before it returns or raises.
InitTimed == Init /\ mode = "test"

FinishTimed(i) == \E d \in 1..MaxDuration : FinishSeqAfter(i, d)

NextTimed ==
    \/ CallTest
    \/ \E i \in 1..N : Invoke(i)
    \/ \E i \in 1..N : FinishTimed(i)

SpecTimed == InitTimed /\ [][NextTimed]_vars

\* ------------------------------------------------ TestSuite and reporter
\* A TestSuite that its owner fills by add_result and mark_complete calls,
\* in any order, with results of any status, while the clock moves on; the
\* summary and the reporter are functions of the suite.

\* Two of the registered dimensions with some of their variants (the value
\* "hierarchical" belongs to both).
DimNames == {"StructuralArchitecture", "ModelOrchestration"}
VariantsOf(d) == IF d = "StructuralArchitecture" THEN {"flat", "hierarchical"}
                 ELSE {"hierarchical"}

\* A member of an Enum class: <<class name, value>>.
Member(cls, v) == <<cls, v>>

\* member.value
ValueOf(m) == m[2]

\* DimensionCombination.dimensions: a dict from the name of a dimension
\* class to a member of that class, over one dimension or more.
SuiteCombos ==
    UNION {{[d \in D |-> Member(d, c[d])] :
               c \in {x \in [D -> {"flat", "hierarchical"}] :
                         \A d \in D : x[d] \in VariantsOf(d)}} :
              D \in SUBSET DimNames \ {{}}}

SuiteResults ==
    {TestResult(c, st, IF st = "error" THEN Some("boom") ELSE None, 0) :
        c \in SuiteCombos, st \in TestStatus}

\* No executor call is under way; a TestSuite has just been constructed.
IdleExecutor ==
    /\ combinations = << >>
    /\ max_workers = 1
    /\ timeout = None
    /\ pc = "suite"
    /\ idx = 1
    /\ now = 0
    /\ suite = [results |-> << >>, start_time |-> Some(0), end_time |-> None]
    /\ completes = 0
    /\ ex = << >>
    /\ result = NoResult
    /\ fstate = << >>
    /\ queue = << >>
    /\ worker = [j \in 1..MaxWorkers |-> -1]
    /\ done0 = {}
    /\ waiter = << >>
    /\ installed = FALSE
    /\ yielded = {}
    /\ calls = << >>
    /\ cbcalls = << >>
    /\ error = ""

InitSuite ==
    /\ mode = "suite"
    /\ IdleExecutor
    /\ generator = NoGenerator
    /\ call = NoCall
    /\ returned = None

\* suite.add_result(r)
SuiteAdd ==
    /\ Len(suite.results) < MaxResults
    /\ \E r \in SuiteResults : suite' = add_result(suite, r)
    /\ UNCHANGED <<inputs, lib, pc, idx, completes, ex, result, pool, calls,
                   cbcalls, error, now>>

\* suite.mark_complete()
SuiteComplete ==
    /\ completes < MaxCompletes
    /\ suite' = mark_complete(suite)
    /\ completes' = completes + 1
    /\ UNCHANGED <<inputs, lib, pc, idx, ex, result, pool, calls, cbcalls, error,
                   now>>

\* Time passes.
SuiteTick ==
    /\ now < MaxClock
    /\ now' = now + 1
    /\ UNCHANGED <<inputs, lib, pc, idx, suite, completes, ex, result, pool,
                   calls, cbcalls, error>>

NextSuite == SuiteAdd \/ SuiteComplete \/ SuiteTick

SpecSuite == InitSuite /\ [][NextSuite]_vars

\* sum(1 for r in results[:n] if r.status == status)
RECURSIVE CountStatus(_, _, _)
CountStatus(rs, n, st) ==
    IF n = 0 THEN 0
    ELSE CountStatus(rs, n - 1, st) + (IF rs[n].status = st THEN 1 ELSE 0)

\* Variant: the counts of the statuses that occur, as a Counter gives them.
status_counts_present(s) ==
    [st \in {s.results[k].status : k \in DOMAIN s.results} |->
        CountStatus(s.results, Len(s.results), st)]

\* get_summary: status_counts, one entry per member of TestStatus
status_counts(s) ==
    [st \in TestStatus |-> CountStatus(s.results, Len(s.results), st)]

\* A float as the exact fraction num / den.
Frac(n, d) == [num |-> n, den |-> d]

\* Variant: the pass rate as a fraction of 1.
pass_rate_fraction(s) ==
    IF s.results /= << >>
       THEN Frac(status_counts(s)["passed"], Len(s.results))
       ELSE Frac(0, 1)

\* get_summary: status_counts["passed"] / len(self.results) * 100
\*              if self.results else 0
pass_rate(s) ==
    IF s.results /= << >>
       THEN Frac(status_counts(s)["passed"] * 100, Len(s.results))
       ELSE Frac(0, 1)

\* Variant: the duration tested for truth instead of end_time.
suite_duration_if_nonzero(s) ==
    IF s.end_time /= None /\ s.end_time[1] - s.start_time[1] /= 0
       THEN Some(s.end_time[1] - s.start_time[1])
       ELSE None

\* get_summary: (end_time - start_time).total_seconds() if self.end_time
\* (a datetime is always true), else None
suite_duration(s) ==
    IF s.end_time /= None THEN Some(s.end_time[1] - s.start_time[1])
    ELSE None

\* TestSuite.get_summary
get_summary(s) ==
    [total_tests |-> Len(s.results),
     status_counts |-> status_counts(s),
     suite_duration |-> suite_duration(s),
     pass_rate |-> pass_rate(s)]

\* datetime.isoformat() of the clock reading t (seconds of the first minute)
isoformat(t) ==
    "1970-01-01T00:00:" \o (IF t < 10 THEN "0" ELSE "") \o IntToStr(t)

\* TestReporter.export_json: the fields of the suite itself
export_json(s) ==
    [start_time |-> isoformat(s.start_time[1]),
     end_time |-> IF s.end_time /= None THEN Some(isoformat(s.end_time[1]))
                  ELSE None,
     summary |-> get_summary(s)]

\* Variant: key = dim_value.value
dimension_key_value_only(d, v) == v

\* format_dimension_analysis: key = f"{dim_name}:{dim_value.value}"
dimension_key(d, v) == d \o ":" \o v

NoStats == [total |-> 0, passed |-> 0, failed |-> 0, error |-> 0]

\* dimension_stats[key] of the defaultdict
StatsAt(stats, key) == IF key \in DOMAIN stats THEN stats[key] ELSE NoStats

\* The body of the inner loop of format_dimension_analysis for one key.
Bump(stats, key, st) ==
    LET old == StatsAt(stats, key)
        new == [total |-> old.total + 1,
                passed |-> old.passed + (IF st = "passed" THEN 1 ELSE 0),
                failed |-> old.failed + (IF st = "failed" THEN 1 ELSE 0),
                error |-> old.error + (IF st = "error" THEN 1 ELSE 0)]
    IN  [k \in DOMAIN stats \cup {key} |-> IF k = key THEN new ELSE stats[k]]

\* for dim_name, dim_value in result.combination.dimensions.items(): ...
\* over the dimensions D of the result r still to visit.
RECURSIVE BumpAll(_, _, _)
BumpAll(stats, r, D) ==
    IF D = {} THEN stats
    ELSE LET d == CHOOSE x \in D : TRUE IN
         BumpAll(Bump(stats, dimension_key(d, ValueOf(r.combination[d])),
                      r.status),
                 r, D \ {d})

\* for result in suite.results: ... over the first n results;
\* dimension_stats when the loop ends.
RECURSIVE dimension_stats(_, _)
dimension_stats(rs, n) ==
    IF n = 0 THEN << >>
    ELSE BumpAll(dimension_stats(rs, n - 1), rs[n], DOMAIN rs[n].combination)

\* ---------------------------------------------------------- export_json
\* Suites of results with every field of TestResult, filled by add_result.

\* The combinations over both dimensions.
ExportCombos ==
    {c \in SuiteCombos : "ModelOrchestration" \in DOMAIN c
                            /\ Cardinality(DOMAIN c) = 2}

\* A metadata dict as the set of its items.
Metadatas == {{}, {<<"note", "n">>}}

ExportResults ==
    {[combination |-> c, status |-> st,
      error_message |-> IF st = "error" THEN Some("boom") ELSE None,
      src |-> 0, execution_time |-> t, metadata |-> m, timestamp |-> ts] :
        c \in ExportCombos, st \in {"passed", "error"}, t \in 0..1,
        m \in Metadatas, ts \in 0..1}

InitExport ==
    /\ mode = "export"
    /\ IdleExecutor
    /\ generator = NoGenerator
    /\ call = NoCall
    /\ returned = None

\* suite.add_result(r)
ExportAdd ==
    /\ Len(suite.results) < MaxResults
    /\ \E r \in ExportResults : suite' = add_result(suite, r)
    /\ UNCHANGED <<inputs, lib, pc, idx, completes, ex, result, pool, calls,
                   cbcalls, error, now>>

NextExport == ExportAdd

SpecExport == InitExport /\ [][NextExport]_vars

\* One element of export_json's "results" list.
export_entry(r) ==
    [combination |->
        [d \in DOMAIN r.combination |-> ValueOf(r.combination[d])],
     status |-> r.status,
     execution_time |-> r.execution_time,
     error_message |-> r.error_message,
     metadata |-> r.metadata,
     timestamp |-> isoformat(r.timestamp)]

\* Variant: the list built from reversed(suite.results).
export_json_results_reversed(s) ==
    [i \in 1..Len(s.results) |->
        export_entry(s.results[Len(s.results) + 1 - i])]

\* export_json: the "results" list
export_json_results(s) ==
    [i \in 1..Len(s.results) |-> export_entry(s.results[i])]

\* --------------------------------------------------------- TestReporter
\* A reporter and a suite: the owner of the suite appends results and marks
\* it complete, and calls the aggregation functions in between. Texts are
\* modelled as the sequence of their lines, a line as the tuple of its parts.

AggFns == {"get_summary", "format_summary", "format_dimension_analysis",
           "format_failures", "format_detailed_results", "generate_report",
           "export_json"}

\* Nothing returned yet since the suite changed last.
NoReports == [f \in AggFns |-> None]

ReportResults ==
    {[combination |-> c, status |-> st,
      error_message |-> IF st = "error" THEN Some("boom") ELSE None,
      src |-> 0, execution_time |-> 1,
      metadata |-> IF st = "error" THEN {<<"note", "n">>} ELSE {},
      timestamp |-> 0] :
        c \in ExportCombos, st \in {"passed", "error"}}

\* TestReporter(verbose) and the arguments of generate_report
InitReport ==
    /\ mode = "report"
    /\ IdleExecutor
    /\ generator = NoGenerator
    /\ call \in [verbose : BOOLEAN, include_details : BOOLEAN,
                 include_dimension_analysis : {TRUE}]
    /\ returned = NoReports

\* The members of TestStatus in definition order.
StatusOrder == <<"pending", "running", "passed", "failed", "skipped", "error">>

\* status.upper()
Upper(st) ==
    CASE st = "pending" -> "PENDING"
      [] st = "running" -> "RUNNING"
      [] st = "passed" -> "PASSED"
      [] st = "failed" -> "FAILED"
      [] st = "skipped" -> "SKIPPED"
      [] st = "error" -> "ERROR"

\* f"{x:.1f}": the fraction x in tenths, rounded
Tenths(x) == (x.num * 20 + x.den) \div (2 * x.den)

\* f"{t:.3f}": the whole number of seconds t in thousandths
Thousandths(t) == t * 1000

\* get_summary: total_execution_time, the sum over results[1..n]
RECURSIVE total_execution_time(_, _)
total_execution_time(rs, n) ==
    IF n = 0 THEN 0
    ELSE total_execution_time(rs, n - 1) + rs[n].execution_time

\* The dimension classes in the order of DIMENSION_CLASSES, in which the
\* generator inserts them into a combination's dict.
DimOrder == <<"StructuralArchitecture", "ModelOrchestration">>

\* dimensions.get_dimension_name
get_dimension_name(cls) ==
    IF cls = "StructuralArchitecture" THEN "Structural Architecture"
    ELSE IF cls = "ModelOrchestration" THEN "Model Orchestration"
    ELSE cls

\* DimensionCombination.__str__: the parts joined by " + "
combination_str(c) ==
    LET Present(d) == d \in DOMAIN c
        keys == SelectSeq(DimOrder, Present)
    IN  [i \in 1..Len(keys) |->
            get_dimension_name(c[keys[i]][1]) \o ": " \o ValueOf(c[keys[i]])]

\* TestResult.__str__
result_str(r) ==
    [status |-> Upper(r.status),
     combination |-> combination_str(r.combination),
     time |-> Thousandths(r.execution_time),
     error |-> IF r.error_message /= None /\ r.error_message /= Some("")
                  THEN r.error_message ELSE None]

\* TestReporter.format_summary
format_summary(s) ==
    LET summary == get_summary(s)
        Shown(st) == summary.status_counts[st] > 0
        shown == SelectSeq(StatusOrder, Shown)
        duration == summary.suite_duration
    IN  << <<"Total Tests", summary.total_tests>> >>
        \o [i \in 1..Len(shown) |->
               <<Upper(shown[i]), summary.status_counts[shown[i]],
                 Tenths(Frac(summary.status_counts[shown[i]] * 100,
                             summary.total_tests))>>]
        \o << <<"Pass Rate", Tenths(summary.pass_rate)>>,
              <<"Total Execution Time",
                Thousandths(total_execution_time(s.results,
                                                 Len(s.results)))>> >>
        \o (IF duration /= None /\ duration /= Some(0)
               THEN << <<"Suite Duration", Thousandths(duration[1])>> >>
               ELSE << >>)

\* TestReporter.format_detailed_results
format_detailed_results(s, verbose) ==
    [i \in 1..Len(s.results) |->
        <<i, result_str(s.results[i]),
          IF verbose /\ s.results[i].metadata /= {}
             THEN s.results[i].metadata ELSE {}>>]

\* format_failures: r.status in [TestStatus.FAILED, TestStatus.ERROR]
IsFailure(r) == r.status \in {"failed", "error"}

\* TestReporter.format_failures
format_failures(s) ==
    LET failures == SelectSeq(s.results, IsFailure) IN
       IF failures = << >> THEN << <<"No failures or errors!">> >>
       ELSE << <<"Failures and Errors", Len(failures)>> >>
            \o [i \in 1..Len(failures) |-> <<i, result_str(failures[i])>>]

\* The keys the breakdown can have here, as sorted() orders them.
SortedKeys == <<"ModelOrchestration:hierarchical",
                "StructuralArchitecture:flat",
                "StructuralArchitecture:hierarchical">>

\* TestReporter.format_dimension_analysis
format_dimension_analysis(s) ==
    LET stats == dimension_stats(s.results, Len(s.results))
        Has(k) == k \in DOMAIN stats
        keys == SelectSeq(SortedKeys, Has)
    IN  [i \in 1..Len(keys) |->
            <<keys[i], stats[keys[i]].total,
              Tenths(IF stats[keys[i]].total > 0
                        THEN Frac(stats[keys[i]].passed * 100,
                                  stats[keys[i]].total)
                        ELSE Frac(0, 1))>>]

\* TestReporter.generate_report: the parts joined by newlines
generate_report(s, verbose, include_details, include_dimension_analysis) ==
    <<format_summary(s)>>
    \o (IF include_dimension_analysis THEN <<format_dimension_analysis(s)>>
        ELSE << >>)
    \o <<format_failures(s)>>
    \o (IF include_details THEN <<format_detailed_results(s, verbose)>>
        ELSE << >>)

\* What the aggregation function f returns for the suite s.
AggValue(f, s) ==
    CASE f = "get_summary" ->
            <<get_summary(s), total_execution_time(s.results, Len(s.results))>>
      [] f = "format_summary" -> format_summary(s)
      [] f = "format_dimension_analysis" -> format_dimension_analysis(s)
      [] f = "format_failures" -> format_failures(s)
      [] f = "format_detailed_results" ->
            format_detailed_results(s, call.verbose)
      [] f = "generate_report" ->
            generate_report(s, call.verbose, call.include_details,
                            call.include_dimension_analysis)
      [] f = "export_json" -> <<export_json(s), export_json_results(s)>>

\* suite.add_result(r)
ReportAdd ==
    /\ Len(suite.results) < MaxResults
    /\ \E r \in ReportResults : suite' = add_result(suite, r)
    /\ returned' = NoReports
    /\ UNCHANGED <<inputs, generator, call, pc, idx, completes, ex, result,
                   pool, calls, cbcalls, error, now>>

\* suite.mark_complete()
ReportComplete ==
    /\ completes < MaxCompletes
    /\ suite' = mark_complete(suite)
    /\ completes' = completes + 1
    /\ returned' = NoReports
    /\ UNCHANGED <<inputs, generator, call, pc, idx, ex, result, pool, calls,
                   cbcalls, error, now>>

\* Variant: format_failures drops the other results from suite.results.
AggregateInPlace(f) ==
    /\ suite' = IF f = "format_failures"
                   THEN [suite EXCEPT !.results = SelectSeq(@, IsFailure)]
                   ELSE suite
    /\ returned' = [returned EXCEPT ![f] = Some(AggValue(f, suite))]
    /\ UNCHANGED <<inputs, generator, call, pc, idx, completes, ex, result,
                   pool, calls, cbcalls, error, now>>

\* A call of the aggregation function f on the suite: none of them assigns
\* to the suite or to one of its results.
Aggregate(f) ==
    /\ suite' = suite
    /\ returned' = [returned EXCEPT ![f] = Some(AggValue(f, suite))]
    /\ UNCHANGED <<inputs, generator, call, pc, idx, completes, ex, result,
                   pool, calls, cbcalls, error, now>>

NextReport ==
    \/ ReportAdd
    \/ ReportComplete
    \/ \E f \in AggFns : Aggregate(f)

SpecReport == InitReport /\ [][NextReport]_vars

\* -------------------------------------------------- CombinationGenerator
\* A CombinationGenerator over the registry in use and the calls of its
\* methods with arguments in and out of range, one call in each behaviour
\* (no method changes the generator). A dict is modelled as the sequence of
\* its items in insertion order.

\* dimensions.DIMENSION_CLASSES: the names of the registered Enum classes
DIMENSION_CLASSES ==
    <<"FormatVariation", "StructuralArchitecture", "ModelOrchestration",
    "ContextRepresentation", "InstructionSemantics", "VerificationProtocol",
    "MetaCognitiveScaffolding", "ConstraintArchitecture",
    "CrossModalTranslation", "TemporalDynamics">>

\* [m.value for m in dim_class], in declared order
EnumValues(cls) ==
    CASE cls = "FormatVariation" ->
            <<"natural_language", "xml", "json", "yaml", "code", "latex",
            "diagrams", "hybrid">>
      [] cls = "StructuralArchitecture" ->
            <<"flat", "hierarchical", "graph", "tree", "mesh", "layered">>
      [] cls = "ModelOrchestration" ->
            <<"single", "sequential", "parallel", "hierarchical", "ensemble",
            "cascading">>
      [] cls = "ContextRepresentation" ->
            <<"minimal", "extended", "contextual", "global", "windowed",
            "dynamic">>
      [] cls = "InstructionSemantics" ->
            <<"imperative", "declarative", "functional", "constraint_based",
            "goal_oriented", "example_based">>
      [] cls = "VerificationProtocol" ->
            <<"none", "basic", "comprehensive", "formal", "statistical",
            "heuristic">>
      [] cls = "MetaCognitiveScaffolding" ->
            <<"none", "reflection", "planning", "monitoring", "evaluation",
            "adaptive">>
      [] cls = "ConstraintArchitecture" ->
            <<"unconstrained", "soft", "hard", "adaptive", "hierarchical",
            "negotiable">>
      [] cls = "CrossModalTranslation" ->
            <<"none", "text_to_code", "code_to_text", "diagram_to_text",
            "text_to_diagram", "multimodal">>
      [] cls = "TemporalDynamics" ->
            <<"static", "sequential", "concurrent", "real_time", "adaptive",
            "predictive">>

\* sorted() of the class names; no name is a prefix of another, so the
\* strings "<name>:<value>" sort as their names do.
SortedClassNames ==
    <<"ConstraintArchitecture", "ContextRepresentation",
    "CrossModalTranslation", "FormatVariation", "InstructionSemantics",
    "MetaCognitiveScaffolding", "ModelOrchestration",
    "StructuralArchitecture", "TemporalDynamics", "VerificationProtocol">>

\* The registry in use.
Registry == SubSeq(DIMENSION_CLASSES, 1, NumDims)

\* list(dim_class): the members of the class in declared order
Members(cls) ==
    [i \in 1..Len(EnumValues(cls)) |-> Member(cls, EnumValues(cls)[i])]

\* max(a, b)
Max(a, b) == IF a >= b THEN a ELSE b

\* CombinationGenerator.__init__(min_dimensions, max_dimensions)
NewGenerator(min_arg, max_arg) ==
    [min_dimensions |-> Max(2, min_arg),
     max_dimensions |->
        Min({IF max_arg /= None /\ max_arg /= Some(0) THEN max_arg[1]
             ELSE Len(Registry),
             Len(Registry)})]

\* list(itertools.combinations(classes, r)) for r >= 0
RECURSIVE combinations_of(_, _)
combinations_of(classes, r) ==
    IF r = 0 THEN << << >> >>
    ELSE IF Len(classes) < r THEN << >>
    ELSE LET with == combinations_of(Tail(classes), r - 1) IN
            [i \in 1..Len(with) |-> <<Head(classes)>> \o with[i]]
            \o combinations_of(Tail(classes), r)

\* Variant: the guard is size < 1.
generate_dimension_groups_from_one(size) ==
    IF size < 1 \/ size > Len(Registry) THEN << >>
    ELSE combinations_of(Registry, size)

\* CombinationGenerator.generate_dimension_groups
generate_dimension_groups(size) ==
    IF size < 2 \/ size > Len(Registry) THEN << >>
    ELSE combinations_of(Registry, size)

\* values[:n] of a list
SliceTo(values, n) ==
    IF n >= 0 THEN SubSeq(values, 1, Min({n, Len(values)}))
    ELSE SubSeq(values, 1, Max(Len(values) + n, 0))

\* values = list(dim_class); if max_per_dimension: values = values[:cap]
CappedMembers(cls, cap) ==
    IF cap /= None /\ cap /= Some(0) THEN SliceTo(Members(cls), cap[1])
    ELSE Members(cls)

\* list(itertools.product(*lists)): the last list varies fastest
RECURSIVE product(_)
product(lists) ==
    IF lists = << >> THEN << << >> >>
    ELSE LET first == Head(lists)
             rest == product(Tail(lists))
         IN  [k \in 1..(Len(first) * Len(rest)) |->
                 <<first[((k - 1) \div Len(rest)) + 1]>>
                 \o rest[((k - 1) % Len(rest)) + 1]]

\* The position of the key name in the dict c, 0 if it is not a key.
KeyIndex(c, name) ==
    IF \E i \in DOMAIN c : c[i][1] = name
       THEN CHOOSE i \in DOMAIN c : c[i][1] = name
       ELSE 0

\* {name: value for name, value in items}: a later item replaces the value
\* of an equal key and keeps the key's place.
RECURSIVE DictOf(_)
DictOf(items) ==
    IF items = << >> THEN << >>
    ELSE LET front == DictOf(SubSeq(items, 1, Len(items) - 1))
             last == items[Len(items)]
             at == KeyIndex(front, last[1])
         IN  IF at = 0 THEN Append(front, last)
             ELSE [front EXCEPT ![at] = last]

\* Variant: every item of the dict is keyed by the group's first class.
generate_combinations_for_group_one_key(group, cap) ==
    LET dimension_values ==
            [g \in 1..Len(group) |->
                [v \in 1..Len(CappedMembers(group[g], cap)) |->
                    <<group[1], CappedMembers(group[g], cap)[v]>>]]
        combos == product(dimension_values)
    IN  [k \in 1..Len(combos) |-> DictOf(combos[k])]

\* CombinationGenerator.generate_combinations_for_group: a list of
\* DimensionCombination, each the dict of its dimensions.
generate_combinations_for_group(group, cap) ==
    LET dimension_values ==
            [g \in 1..Len(group) |->
                [v \in 1..Len(CappedMembers(group[g], cap)) |->
                    <<group[g], CappedMembers(group[g], cap)[v]>>]]
        combos == product(dimension_values)
    IN  [k \in 1..Len(combos) |-> DictOf(combos[k])]

\* "sep".join(parts)
RECURSIVE Join(_, _)
Join(parts, sep) ==
    IF parts = << >> THEN ""
    ELSE IF Len(parts) = 1 THEN parts[1]
    ELSE parts[1] \o sep \o Join(Tail(parts), sep)

\* Variant: the parts in the insertion order of the dict, unsorted.
get_hash_insertion_order(c) ==
    Join([i \in 1..Len(c) |-> c[i][1] \o ":" \o ValueOf(c[i][2])], "|")

\* DimensionCombination.get_hash: a part for each class of
\* DIMENSION_CLASSES that is a key, the parts sorted and joined by "|"
get_hash(c) ==
    LET IsKey(name) == KeyIndex(c, name) /= 0
        parts == SelectSeq(DIMENSION_CLASSES, IsKey)
        IsPart(name) == \E i \in DOMAIN parts : parts[i] = name
        sorted == SelectSeq(SortedClassNames, IsPart)
    IN  Join([i \in 1..Len(sorted) |->
                 sorted[i] \o ":" \o ValueOf(c[KeyIndex(c, sorted[i])][2])],
             "|")

\* Variant: the test is total_count > max_total_combinations.
CeilingExceeded(max_total, total_count) ==
    max_total /= None /\ max_total /= Some(0) /\ total_count > max_total[1]

\* if max_total_combinations and total_count >= max_total_combinations
CeilingReached(max_total, total_count) ==
    max_total /= None /\ max_total /= Some(0) /\ total_count >= max_total[1]

\* generate_all_combinations: the loop over the groups of one size from
\* the j-th on; stop is set when the loop returns from the function.
RECURSIVE LoopGroups(_, _, _, _, _, _, _)
LoopGroups(groups, j, size, cap, max_total, results, total_count) ==
    IF j > Len(groups)
       THEN [results |-> results, total_count |-> total_count,
             stop |-> FALSE]
       ELSE LET combos == generate_combinations_for_group(groups[j], cap)
                extended == [results EXCEPT ![size] = @ \o combos]
                counted == total_count + Len(combos)
            IN  IF CeilingReached(max_total, counted)
                   THEN [results |-> extended, total_count |-> counted,
                         stop |-> TRUE]
                   ELSE LoopGroups(groups, j + 1, size, cap, max_total,
                                   extended, counted)

\* generate_all_combinations: the loop over the sizes from size on.
RECURSIVE LoopSizes(_, _, _, _, _, _)
LoopSizes(size, last, cap, max_total, results, total_count) ==
    IF size > last THEN results
    ELSE LET opened == [k \in DOMAIN results \cup {size} |->
                           IF k = size THEN << >> ELSE results[k]]
             after == LoopGroups(generate_dimension_groups(size), 1, size,
                                 cap, max_total, opened, total_count)
         IN  IF after.stop THEN after.results
             ELSE LoopSizes(size + 1, last, cap, max_total, after.results,
                            after.total_count)

\* CombinationGenerator.generate_all_combinations: a dict from size to the
\* list of combinations of that size
generate_all_combinations(g, cap, max_total) ==
    LoopSizes(g.min_dimensions, g.max_dimensions, cap, max_total, << >>, 0)

\* Variant: random.choices, sampling with replacement.
SamplesWithReplacement(n, m) == [1..m -> 1..n]

\* random.sample(population, m) as positions: any m distinct positions of a
\* population of n, in any order.
Samples(n, m) ==
    {q \in [1..m -> 1..n] : \A a, b \in 1..m : a /= b => q[a] /= q[b]}

\* generate_sample_combinations: the combinations of one size for the
\* sampled positions q of its groups.
SampledCombos(size, q) ==
    LET groups == generate_dimension_groups(size) IN
       [i \in 1..Len(q) |->
           generate_combinations_for_group(groups[q[i]], Some(1))[1]]

\* generate_sample_combinations: the dicts that the loop over the sizes from
\* size on can build for samples_per_size >= 0, one for each outcome of
\* random.sample.
RECURSIVE SampleResults(_, _, _)
SampleResults(size, last, samples) ==
    IF size > last THEN {<< >>}
    ELSE LET n == Len(generate_dimension_groups(size)) IN
            {[k \in size..last |->
                 IF k = size THEN SampledCombos(size, q) ELSE rest[k]] :
                q \in Samples(n, Min({samples, n})),
                rest \in SampleResults(size + 1, last, samples)}

\* What a call returned, or the exception it raised.
Returned(v) == [raised |-> "", value |-> v]
Raised(kind) == [raised |-> kind, value |-> << >>]

\* generator = CombinationGenerator(min_dimensions, max_dimensions)
InitGen ==
    /\ mode = "generate"
    /\ IdleExecutor
    /\ \E a \in 0..(NumDims + 1) :
          \E b \in {None} \cup {Some(x) : x \in (-1)..(NumDims + 1)} :
             generator = NewGenerator(a, b)
    /\ call = NoCall
    /\ returned = None

\* The max_per_dimension and max_total_combinations arguments.
Caps == {None} \cup {Some(x) : x \in (-1)..MaxCap}
Ceilings == {None} \cup {Some(x) : x \in (-1)..MaxTotal}

\* Tuples of distinct classes of the registry, in registry order.
Groups ==
    UNION {{combinations_of(Registry, r)[i] :
               i \in 1..Len(combinations_of(Registry, r))} :
              r \in 0..Len(Registry)}

\* Dicts that map some classes of the registry to one of their first two
\* members each, with their items in any insertion order.
HashInputs ==
    UNION {{q \in [1..Cardinality(D) -> {<<d, Members(d)[v]>> :
                                           d \in D, v \in 1..2}] :
               \A a, b \in 1..Cardinality(D) : a /= b => q[a][1] /= q[b][1]} :
              D \in SUBSET {Registry[i] : i \in 1..Len(Registry)}}

\* generator.generate_dimension_groups(size)
CallGroups ==
    /\ mode = "generate"
    /\ call = NoCall
    /\ \E size \in (-1)..(NumDims + 2) :
          /\ call' = [fn |-> "generate_dimension_groups", size |-> size]
          /\ returned' = Returned(generate_dimension_groups(size))
    /\ UNCHANGED <<inputs, generator, pc, idx, suite, completes, ex, result,
                   pool, calls, cbcalls, error, now>>

\* generator.generate_combinations_for_group(group, max_per_dimension)
CallForGroup ==
    /\ mode = "generate"
    /\ call = NoCall
    /\ \E group \in Groups, cap \in Caps :
          /\ call' = [fn |-> "generate_combinations_for_group",
                      group |-> group, max_per_dimension |-> cap]
          /\ returned' = Returned(generate_combinations_for_group(group, cap))
    /\ UNCHANGED <<inputs, generator, pc, idx, suite, completes, ex, result,
                   pool, calls, cbcalls, error, now>>

\* generator.generate_all_combinations(max_per_dimension,
\*                                     max_total_combinations)
CallAll ==
    /\ mode = "generate"
    /\ call = NoCall
    /\ \E cap \in Caps, max_total \in Ceilings :
          /\ call' = [fn |-> "generate_all_combinations",
                      max_per_dimension |-> cap,
                      max_total_combinations |-> max_total]
          /\ returned' =
                Returned(generate_all_combinations(generator, cap, max_total))
    /\ UNCHANGED <<inputs, generator, pc, idx, suite, completes, ex, result,
                   pool, calls, cbcalls, error, now>>

\* generator.generate_sample_combinations(samples_per_size): random.sample
\* raises ValueError for a negative sample size in the first pass of the
\* loop over the sizes.
CallSample ==
    /\ mode = "generate"
    /\ call = NoCall
    /\ \E samples \in (-1)..MaxSamples :
          LET sizes == generator.min_dimensions..generator.max_dimensions
          IN  /\ call' = [fn |-> "generate_sample_combinations",
                          samples_per_size |-> samples]
              /\ IF sizes /= {} /\ samples < 0
                    THEN returned' = Raised("ValueError")
                    ELSE \E results \in
                            SampleResults(generator.min_dimensions,
                                          generator.max_dimensions, samples) :
                            returned' = Returned(results)
    /\ UNCHANGED <<inputs, generator, pc, idx, suite, completes, ex, result,
                   pool, calls, cbcalls, error, now>>

\* DimensionCombination(dimensions).get_hash()
CallHash ==
    /\ mode = "generate"
    /\ call = NoCall
    /\ \E dimensions \in HashInputs :
          /\ call' = [fn |-> "get_hash", dimensions |-> dimensions]
          /\ returned' = Returned(get_hash(dimensions))
    /\ UNCHANGED <<inputs, generator, pc, idx, suite, completes, ex, result,
                   pool, calls, cbcalls, error, now>>

NextGen == CallGroups \/ CallForGroup \/ CallAll \/ CallSample \/ CallHash

SpecGen == InitGen /\ [][NextGen]_vars

\* ------------------------------------------------------------ vocabulary
Range(s) == {s[k] : k \in DOMAIN s}

\* The bag (multiset) of the elements of a sequence.
BagOfSeq(s) == [x \in Range(s) |-> Cardinality({k \in DOMAIN s : s[k] = x})]

\* Number of times x occurs in the sequence s.
Count(s, x) == Cardinality({k \in DOMAIN s : s[k] = x})

BatchModes == {"sequential", "parallel"}

\* Input elements whose predicate invocation has returned or raised.
Finished == {i \in 1..N : ex[i].status \notin {"none", "pending"}
                          /\ (ex[i].status = "running" => ex[i].outcome.raised)}

\* Every TestResult an execute_test has handed to the calling code.
Produced == Range(suite.results) \cup Range(cbcalls) \cup
            (IF result = NoResult THEN {} ELSE {result})

\* What the predicate did in the execution that produced r.
OutcomeOf(r) == ex[r.src].outcome

\* ------------------------------------------------------------------- C1
\* C1: execute_batch with parallel=True returns a suite holding exactly one
\* TestResult per input element, repeated combinations included: none is
\* lost, none is duplicated, len(suite.results) = len(combinations).
C1_ExactlyOnePerInput ==
    (mode = "parallel" /\ pc = "returned") =>
        /\ Len(suite.results) = N
        /\ \A i \in 1..N :
              Cardinality({k \in DOMAIN suite.results :
                              suite.results[k].src = i}) = 1

C1_Witness ==
    /\ mode = "parallel" /\ pc = "returned"
    /\ max_workers = 2
    /\ N = 2 /\ combinations[1] = combinations[2]
    /\ suite.results[1].src = 2

\* ------------------------------------------------------------------- C2
\* execute_test(combo) as a function of the position i of the combination
\* and of what the predicate does on it.
ExecuteTest(i, o) ==
    TestResult(combinations[i], StatusAfter(o), ErrorMessageAfter(o, None), i)

\* The results of the sequential loop of execute_batch over the first n
\* input elements, for the predicate that does p[c] on combination c.
RECURSIVE SequentialResults(_, _)
SequentialResults(n, p) ==
    IF n = 0 THEN << >>
    ELSE Append(SequentialResults(n - 1, p), ExecuteTest(n, p[combinations[n]]))

\* The predicate of this run depends only on the combination.
Deterministic ==
    \A i, j \in Finished :
        combinations[i] = combinations[j] => ex[i].outcome = ex[j].outcome

\* The predicate of this run, as a function of the combination.
PredicateOf ==
    [c \in Combos |->
        IF \E i \in Finished : combinations[i] = c
           THEN ex[CHOOSE i \in Finished : combinations[i] = c].outcome
           ELSE NoOutcome]

Pair(r) == <<r.combination, r.status>>
Pairs(s) == [k \in DOMAIN s |-> Pair(s[k])]

\* C2: for a predicate whose outcome depends only on the combination, the
\* suite of a parallel execute_batch holds the same multiset of
\* (combination, status) pairs as the sequential one on the same input.
C2_PermutationOfSequential ==
    (mode = "parallel" /\ pc = "returned" /\ Deterministic) =>
        BagOfSeq(Pairs(suite.results)) =
            BagOfSeq(Pairs(SequentialResults(N, PredicateOf)))

C2_Witness ==
    /\ mode = "parallel" /\ pc = "returned" /\ Deterministic
    /\ max_workers = 2
    /\ N = 2 /\ combinations[1] /= combinations[2]
    /\ suite.results[1].src = 2
    /\ suite.results[1].status /= suite.results[2].status

\* ------------------------------------------------------------------- C3
\* C3: in sequential execute_batch and in execute_with_callback the
\* predicate is invoked on the combinations in input order and the i-th
\* result of the suite is the result for the i-th input combination.
C3_InputOrder ==
    mode \in {"sequential", "callback"} =>
        /\ \A k \in DOMAIN calls : calls[k] = k
        /\ \A k \in DOMAIN suite.results :
              /\ suite.results[k].src = k
              /\ suite.results[k].combination = combinations[k]
              /\ suite.results[k] = ExecuteTest(k, ex[k].outcome)
        /\ Len(suite.results) <= Len(calls)
        /\ Len(calls) <= Len(suite.results) + 1
        /\ pc = "returned" => Len(suite.results) = N /\ Len(calls) = N

C3_Witness ==
    /\ mode = "callback" /\ pc = "returned"
    /\ N = 2 /\ combinations[1] /= combinations[2]
    /\ suite.results[1].status /= suite.results[2].status

\* ------------------------------------------------------------------- C4
\* C4 as stated: whatever the predicate raises, execute_batch never
\* propagates it to the caller.
C4_NeverPropagates ==
    mode \in BatchModes => pc \notin {"unwind", "raised"} /\ error = ""

\* The predicate has raised nothing but subclasses of Exception so far.
OnlyExceptions ==
    \A i \in 1..N : ex[i].outcome.raised => IsException(ex[i].outcome.kind)

\* C4 (amended): whatever subclass of Exception the predicate raises, on
\* whichever input elements, execute_batch does not propagate it and does
\* not stall: it returns a completed suite in which each raising invocation
\* is an ERROR result and every other input element is executed and
\* recorded too.
C4_ExceptionsContained ==
    (mode \in BatchModes /\ OnlyExceptions) =>
        /\ pc \notin {"unwind", "raised"} /\ error = ""
        /\ pc /= "returned" => ENABLED Next
        /\ pc = "returned" =>
              /\ suite.end_time /= None
              /\ \A i \in 1..N :
                    /\ Count(calls, i) = 1
                    /\ \E k \in DOMAIN suite.results :
                          /\ suite.results[k].src = i
                          /\ suite.results[k].status = "error"
                                <=> ex[i].outcome.raised

C4_Witness ==
    /\ mode = "parallel" /\ pc = "returned"
    /\ N = 2
    /\ ex[1].outcome.raised /\ ~ex[2].outcome.raised
    /\ suite.results[2].status = "error"

\* ------------------------------------------------------------------- C5
Terminal == {"passed", "failed", "error"}

StatusSteps == {<<"none", "pending">>, <<"pending", "running">>} \cup
               {<<"running", t>> : t \in Terminal}

\* The status of every returned TestResult says what the predicate did.
C5_ResultStatus ==
    \A r \in Produced :
        /\ r.status \in Terminal
        /\ r.status = "passed" <=> (~OutcomeOf(r).raised /\ OutcomeOf(r).value)
        /\ r.status = "failed" <=> (~OutcomeOf(r).raised /\ ~OutcomeOf(r).value)
        /\ r.status = "error" <=> OutcomeOf(r).raised

\* C5: every execution of execute_test moves PENDING -> RUNNING -> one
\* terminal status and never leaves it, and a returned TestResult is PASSED
\* iff the predicate returned true, FAILED iff it returned false, ERROR iff
\* it raised; it is never PENDING, RUNNING or SKIPPED.
C5_StateMachine ==
    /\ []C5_ResultStatus
    /\ [][\A i \in 1..N :
             ex'[i].status /= ex[i].status =>
                 <<ex[i].status, ex'[i].status>> \in StatusSteps]_vars

C5_Witness ==
    /\ mode = "sequential" /\ pc = "returned"
    /\ N = 2
    /\ suite.results[1].status = "passed"
    /\ suite.results[2].status = "error"

\* ------------------------------------------------------------------- C6
\* C6: a call of execute_batch or execute_with_callback that returns has
\* marked the suite complete exactly once, after the last result was
\* appended and (parallel) after every submitted execution finished; no
\* result is appended once the end timestamp is set.
C6_CompleteOnceAtEnd ==
    /\ [](/\ completes <= 1
          /\ suite.end_time /= None <=> completes = 1
          /\ (pc = "returned" /\ mode /= "test") =>
                /\ completes = 1
                /\ Len(suite.results) = N
                /\ mode = "parallel" =>
                      PoolQuiet /\ \A f \in 1..N : fstate[f] = "FINISHED")
    /\ [][suite.end_time /= None => suite' = suite]_vars

C6_Witness ==
    /\ mode = "parallel" /\ pc = "returned"
    /\ N = 2 /\ max_workers = 1
    /\ completes = 1 /\ suite.end_time = Some(2)

\* ------------------------------------------------------------------- C7
\* C7: within one call the predicate is invoked at most once per input
\* element, also when the invocation fails or raises (no retry).
C7_AtMostOnce ==
    \A k \in DOMAIN calls :
        calls[k] \in 1..N /\ Count(calls, calls[k]) = 1

C7_Witness ==
    /\ mode = "sequential" /\ pc = "returned"
    /\ N = 2 /\ Len(calls) = 2
    /\ suite.results[1].status = "error"
    /\ suite.results[2].status = "failed"

\* ------------------------------------------------------------------- C8
\* C8: when the predicate raises on every invocation, whatever it raises
\* with, every result of the suite execute_batch returns is an ERROR with a
\* non-empty error message.
C8_AlwaysRaisingNonEmpty ==
    (mode \in BatchModes /\ pc = "returned"
        /\ \A i \in 1..N : ex[i].outcome.raised) =>
        \A k \in DOMAIN suite.results :
            /\ suite.results[k].status = "error"
            /\ suite.results[k].error_message /= None
            /\ suite.results[k].error_message /= Some("")

\* ------------------------------------------------------------------- C9
\* C9 as stated: the ERROR result of a predicate that raised with message m
\* has error_message m, whatever the class of the exception.
C9_MessageVerbatim ==
    \A r \in Produced :
        OutcomeOf(r).raised => r.error_message = Some(OutcomeOf(r).msg)

\* C9 (amended): the ERROR result has error_message str(e): m itself for
\* the classes that keep Exception.__str__, m in quotes for KeyError; for
\* TimeoutError it is the timeout text of execute_test and not m.
C9_MessageIsStr ==
    \A r \in Produced :
        OutcomeOf(r).raised =>
            /\ r.status = "error"
            /\ r.error_message =
                  CASE OutcomeOf(r).kind = "TimeoutError" ->
                          Some("Test timed out after "
                               \o (IF TimeoutArg = None THEN "None"
                                   ELSE IntToStr(TimeoutArg[1])) \o "s")
                    [] OutcomeOf(r).kind = "KeyError" ->
                          Some("'" \o OutcomeOf(r).msg \o "'")
                    [] OTHER -> Some(OutcomeOf(r).msg)

C9_Witness ==
    /\ mode = "test" /\ pc = "returned"
    /\ ex[1].outcome = Raises("ValueError", "boom")
    /\ result.error_message = Some("boom")

\* ------------------------------------------------------------------ C10
\* A message that names a timeout value: "Test timed out after <t>s".
NamesTimeout(m) ==
    \E t \in 0..(MaxTimeout + 1) :
        m = Some("Test timed out after " \o IntToStr(t) \o "s")

\* C10: when the predicate signals a timeout, the result is an ERROR whose
\* message names the configured timeout, in execute_test called with a
\* timeout and in every execution of execute_batch and
\* execute_with_callback.
C10_TimeoutNamed ==
    \A r \in Produced :
        (OutcomeOf(r).raised /\ OutcomeOf(r).kind = "TimeoutError"
            /\ (mode = "test" => timeout /= None)) =>
            /\ r.status = "error"
            /\ NamesTimeout(r.error_message)
            /\ mode = "test" =>
                  r.error_message =
                      Some("Test timed out after " \o IntToStr(timeout[1])
                           \o "s")

\* ------------------------------------------------------------------ C11
\* C11: with a timeout t configured on execute_test, an invocation of the
\* predicate that needs longer than t (here: it comes back when the clock
\* reads more than t) is cut off at t and its result is an ERROR.
C11_TimeoutBounds ==
    (mode = "test" /\ timeout /= None /\ pc = "returned"
        /\ now - ex[1].start_time > timeout[1]) =>
        /\ ex[1].execution_time <= timeout[1]
        /\ result.status = "error"

\* ------------------------------------------------------------------ C12
\* C12: in every TestResult produced by execute_test, error_message is
\* present (not None) if and only if status is ERROR.
C12_MessageIffError ==
    \A r \in Produced : r.error_message /= None <=> r.status = "error"

C12_Witness ==
    /\ mode = "sequential" /\ pc = "returned" /\ N = 2
    /\ suite.results[1].status = "error"
    /\ suite.results[1].error_message = Some("")
    /\ suite.results[2].status = "failed"
    /\ suite.results[2].error_message = None

\* ------------------------------------------------------------------ C13
\* C13: execute_with_callback calls the observer once per TestResult, right
\* after the result is appended and before the next predicate invocation:
\* the result passed is the last element of suite.results at that moment,
\* and the observer calls are in input order.
C13_ObserverAfterAppend ==
    /\ [](mode = "callback" =>
            /\ Len(cbcalls) <= Len(suite.results)
            /\ Len(suite.results) <= Len(cbcalls) + 1
            /\ Len(suite.results) = Len(cbcalls) + 1 => pc = "callback"
            /\ \A k \in DOMAIN cbcalls :
                  cbcalls[k] = suite.results[k] /\ cbcalls[k].src = k
            /\ Len(calls) <= Len(cbcalls) + 1
            /\ pc = "returned" => Len(cbcalls) = N)
    /\ [][(mode = "callback" /\ cbcalls' /= cbcalls) =>
             /\ suite' = suite
             /\ calls' = calls
             /\ cbcalls' = Append(cbcalls,
                                  suite.results[Len(suite.results)])]_vars

C13_Witness ==
    /\ mode = "callback" /\ pc = "returned" /\ N = 2
    /\ Len(cbcalls) = 2
    /\ cbcalls[1].status = "error" /\ cbcalls[2].status = "passed"

\* ------------------------------------------------------------------ C14
\* C14: an observer that raises on the i-th result makes
\* execute_with_callback propagate the error: i results are appended at
\* that point, no predicate invocation or observer call follows, and the
\* suite is not marked complete.
C14_ObserverErrorPropagates ==
    /\ []((mode = "callback" /\ error = "CallbackError") =>
            /\ pc = "raised"
            /\ Len(suite.results) = idx
            /\ Len(cbcalls) = idx
            /\ Len(calls) = idx
            /\ suite.end_time = None /\ completes = 0)
    /\ [][(mode = "callback" /\ error = "CallbackError") =>
             UNCHANGED <<suite, calls, cbcalls, completes, pc>>]_vars

C14_Witness ==
    /\ mode = "callback" /\ pc = "raised" /\ error = "CallbackError"
    /\ N = 2 /\ idx = 1
    /\ Len(suite.results) = 1

\* ------------------------------------------------------------------ C15
\* The clock at which the execute_test of input element i came back.
FinishedAt(i) == ex[i].start_time + ex[i].execution_time

\* C15 as stated: in parallel execute_batch the results are in completion
\* order: a result that precedes another one finished before it.
C15_CompletionOrder ==
    mode = "parallel" =>
        \A k, l \in DOMAIN suite.results :
            k < l => FinishedAt(suite.results[k].src)
                        < FinishedAt(suite.results[l].src)

\* C15 (amended): the results of the executions that had finished when
\* as_completed starts are appended first, in no particular order; every
\* result appended after them is appended in completion order, that is not
\* before every execution that finished earlier has been collected.
C15_CompletionOrderOnceIterating ==
    [][(mode = "parallel" /\ suite'.results /= suite.results) =>
          /\ Len(suite'.results) = Len(suite.results) + 1
          /\ LET f == suite'.results[Len(suite'.results)].src IN
                \/ f \in done0
                \/ /\ done0 = {}
                   /\ \A g \in Finished :
                         FinishedAt(g) < FinishedAt(f) => g \in yielded]_vars

C15_Witness ==
    /\ mode = "parallel" /\ pc = "collect" /\ N = 2
    /\ done0 = {} /\ waiter = <<1>>
    /\ Len(suite.results) = 1 /\ suite.results[1].src = 2
    /\ fstate[1] = "FINISHED"

\* ------------------------------------------------------------------ C16
\* Input elements whose predicate invocation is under way in a thread.
InFlight == {i \in 1..N : ex[i].status = "running" /\ Runs(i)}

\* C16: in parallel execute_batch with max_workers = w at most w predicate
\* invocations are running at any moment, and every submitted combination
\* eventually runs.
C16_BoundedPool ==
    /\ [](mode = "parallel" => Cardinality(InFlight) <= max_workers)
    /\ \A i \in 1..MaxLen :
          (i <= N /\ fstate[i] = "PENDING") ~> (i <= N /\ Count(calls, i) = 1)

C16_Witness ==
    /\ mode = "parallel" /\ max_workers = 1 /\ N = 2
    /\ InFlight = {1}
    /\ queue = <<2>> /\ fstate[2] = "PENDING"

\* ------------------------------------------------------------------ C17
\* sum(f.values()) of a dict f
RECURSIVE SumOver(_, _)
SumOver(f, K) ==
    IF K = {} THEN 0
    ELSE LET k == CHOOSE x \in K : TRUE IN f[k] + SumOver(f, K \ {k})

\* The results of the suite with the status st.
WithStatus(st) == {k \in DOMAIN suite.results : suite.results[k].status = st}

\* C17: after any sequence of appends get_summary returns total_tests equal
\* to len(suite.results) and a status_counts mapping with an entry for every
\* TestStatus value, zero when the status is absent, whose values sum to
\* total_tests.
C17_SummaryCounts ==
    mode = "suite" =>
       LET summary == get_summary(suite) IN
          /\ summary.total_tests = Len(suite.results)
          /\ DOMAIN summary.status_counts = TestStatus
          /\ \A st \in TestStatus :
                summary.status_counts[st] = Cardinality(WithStatus(st))
          /\ SumOver(summary.status_counts, DOMAIN summary.status_counts)
                = summary.total_tests

C17_Witness ==
    /\ mode = "suite"
    /\ Len(suite.results) = 2
    /\ get_summary(suite).status_counts["failed"] = 2
    /\ get_summary(suite).status_counts["skipped"] = 0

\* ------------------------------------------------------------------ C18
\* C18: pass_rate equals passedCount / totalCount * 100 for every non-empty
\* suite and is exactly 0 for an empty suite; it always lies between 0 and
\* 100.
C18_PassRate ==
    mode = "suite" =>
       LET rate == get_summary(suite).pass_rate
           passedCount == Cardinality(WithStatus("passed"))
           totalCount == Len(suite.results)
       IN  /\ rate.den > 0
           /\ totalCount = 0 => rate.num = 0
           /\ totalCount > 0 =>
                 rate.num * totalCount = passedCount * 100 * rate.den
           /\ 0 <= rate.num
           /\ rate.num <= 100 * rate.den

C18_Witness ==
    /\ mode = "suite"
    /\ Len(suite.results) = 2
    /\ Cardinality(WithStatus("passed")) = 1
    /\ get_summary(suite).pass_rate = Frac(100, 2)

\* ------------------------------------------------------------------ C19
\* C19: suite_duration is None exactly when the suite has not been marked
\* complete and equals the end timestamp minus the start timestamp once it
\* has; export_json's end_time is null under the same condition; both are
\* defined on an incomplete or empty suite.
C19_DurationIffComplete ==
    mode = "suite" =>
       LET summary == get_summary(suite)
           export == export_json(suite)
       IN  /\ summary.suite_duration = None <=> completes = 0
           /\ export.end_time = None <=> completes = 0
           /\ completes > 0 =>
                 /\ summary.suite_duration
                       = Some(suite.end_time[1] - suite.start_time[1])
                 /\ export.end_time = Some(isoformat(suite.end_time[1]))
           /\ export.summary = summary

\* A suite marked complete at the reading of the clock it was created at.
C19_Witness ==
    /\ mode = "suite"
    /\ completes = 1
    /\ suite.end_time = suite.start_time
    /\ get_summary(suite).suite_duration = Some(0)
    /\ suite.results = << >>

\* ------------------------------------------------------------------ C20
\* The (dimension, variant) pairs of the combination c.
PairsOf(c) == {<<d, ValueOf(c[d])>> : d \in DOMAIN c}

\* The (dimension, variant) pairs appearing in any result of the suite.
SuitePairs == UNION {PairsOf(suite.results[k].combination) :
                        k \in DOMAIN suite.results}

\* The results whose combination contains the pair p.
Containing(p) ==
    {k \in DOMAIN suite.results : p \in PairsOf(suite.results[k].combination)}

\* C20: the dimension breakdown has one entry per distinct (dimension,
\* variant) pair appearing in any result; the entry's total is the number of
\* results containing the pair, its passed, failed and error counts are the
\* numbers of those results with status PASSED, FAILED and ERROR; when every
\* status is one the executor produces, total = passed + failed + error.
C20_DimensionBreakdown ==
    mode = "suite" =>
       LET stats == dimension_stats(suite.results, Len(suite.results)) IN
          /\ DOMAIN stats = {dimension_key(p[1], p[2]) : p \in SuitePairs}
          /\ Cardinality(DOMAIN stats) = Cardinality(SuitePairs)
          /\ \A p \in SuitePairs :
                LET entry == stats[dimension_key(p[1], p[2])] IN
                   /\ entry.total = Cardinality(Containing(p))
                   /\ entry.passed =
                         Cardinality(Containing(p) \cap WithStatus("passed"))
                   /\ entry.failed =
                         Cardinality(Containing(p) \cap WithStatus("failed"))
                   /\ entry.error =
                         Cardinality(Containing(p) \cap WithStatus("error"))
                   /\ (\A k \in DOMAIN suite.results :
                          suite.results[k].status \in Terminal)
                      => entry.total
                            = entry.passed + entry.failed + entry.error

\* Two results that share the variant "hierarchical" in different dimensions
\* and the pair (StructuralArchitecture, hierarchical).
C20_Witness ==
    /\ mode = "suite"
    /\ Len(suite.results) = 2
    /\ SuitePairs = {<<"StructuralArchitecture", "hierarchical">>,
                     <<"ModelOrchestration", "hierarchical">>}
    /\ Cardinality(Containing(<<"StructuralArchitecture", "hierarchical">>))
          = 2
    /\ suite.results[1].status = "passed"
    /\ suite.results[2].status = "error"

\* ------------------------------------------------------------------ C30
\* s is a prefix of t.
IsPrefix(s, t) == Len(s) <= Len(t) /\ SubSeq(t, 1, Len(s)) = s

\* C30: for every sequence of add_result and mark_complete calls the results
\* sequence only grows by appending at the end, and the end timestamp, once
\* set, is never changed by a later call.
C30_AppendOnlySealedOnce ==
    [][mode = "suite" =>
          /\ IsPrefix(suite.results, suite'.results)
          /\ suite.end_time /= None => suite'.end_time = suite.end_time]_vars

\* ------------------------------------------------------------------ C21
\* C21: export_json's results list has the length of suite.results and its
\* i-th entry carries the i-th result's dimension-to-variant mapping, status,
\* elapsed time, error message, metadata and timestamp; a result that differs
\* in any of these has a different entry.
C21_ExportComplete ==
    mode = "export" =>
       LET exported == export_json_results(suite) IN
          /\ Len(exported) = Len(suite.results)
          /\ \A i \in DOMAIN suite.results :
                LET r == suite.results[i]
                    e == exported[i]
                IN  /\ DOMAIN e.combination = DOMAIN r.combination
                    /\ \A d \in DOMAIN r.combination :
                          Member(d, e.combination[d]) = r.combination[d]
                    /\ e.status = r.status
                    /\ e.execution_time = r.execution_time
                    /\ e.error_message = r.error_message
                    /\ e.metadata = r.metadata
                    /\ e.timestamp = isoformat(r.timestamp)
                    /\ \A q \in ExportResults : export_entry(q) = e => q = r

C21_Witness ==
    /\ mode = "export"
    /\ Len(suite.results) = 2
    /\ suite.results[1].combination /= suite.results[2].combination
    /\ suite.results[1].status = "error"
    /\ suite.results[2].status = "passed"
    /\ suite.results[1].metadata /= suite.results[2].metadata
    /\ suite.results[1].timestamp /= suite.results[2].timestamp

\* ------------------------------------------------------------------ C22
\* C22: every aggregation function leaves the suite unchanged (results
\* sequence, start and end timestamps), so that calling them repeatedly and
\* in any order returns the same values: a call on a suite that has not
\* changed since an earlier call of the same function returns what that
\* call returned.
C22_AggregationPure ==
    [][(mode = "report" /\ returned' /= NoReports) =>
          /\ suite' = suite
          /\ \A f \in AggFns :
                returned[f] /= None => returned'[f] = returned[f]]_vars

\* Every aggregation function has been called on a completed suite of a
\* passed and an error result.
C22_Witness ==
    /\ mode = "report"
    /\ \A f \in AggFns : returned[f] = Some(AggValue(f, suite))
    /\ Len(suite.results) = 2
    /\ suite.results[1].status = "passed"
    /\ suite.results[2].status = "error"
    /\ suite.end_time /= None
    /\ returned["format_failures"][1][1] = <<"Failures and Errors", 1>>

\* ------------------------------------------------------------------ C23
\* The number of k-element subsets of an n-element set.
RECURSIVE Binomial(_, _)
Binomial(n, k) ==
    IF k < 0 \/ k > n THEN 0
    ELSE IF k = 0 \/ k = n THEN 1
    ELSE Binomial(n - 1, k - 1) + Binomial(n - 1, k)

Registered == {Registry[i] : i \in 1..Len(Registry)}

\* C23: generate_dimension_groups(k) returns every size-k subset of the
\* registered dimensions exactly once, C(n, k) of them, when 2 <= k <= n
\* (45 for k = 2 and 120 for k = 3 over all 10 dimensions), and an empty
\* list without raising when k < 2 or k > n.
C23_AllGroupsOnce ==
    (mode = "generate" /\ call.fn = "generate_dimension_groups") =>
       LET k == call.size
           n == Len(Registry)
           groups == returned.value
       IN  /\ returned.raised = ""
           /\ IF 2 <= k /\ k <= n
                 THEN /\ Len(groups) = Binomial(n, k)
                      /\ {Range(groups[i]) : i \in DOMAIN groups}
                            = {S \in SUBSET Registered : Cardinality(S) = k}
                      /\ \A i \in DOMAIN groups :
                            /\ Len(groups[i]) = k
                            /\ Cardinality(Range(groups[i])) = k
                      /\ \A i, j \in DOMAIN groups :
                            i /= j => Range(groups[i]) /= Range(groups[j])
                 ELSE groups = << >>
           /\ Len(DIMENSION_CLASSES) = 10
           /\ Len(combinations_of(DIMENSION_CLASSES, 2)) = 45
           /\ Len(combinations_of(DIMENSION_CLASSES, 3)) = 120

C23_Witness ==
    /\ mode = "generate"
    /\ call.fn = "generate_dimension_groups"
    /\ call.size = 2
    /\ Len(returned.value) = 3
    /\ returned.value[2] = <<"FormatVariation", "ModelOrchestration">>

\* ------------------------------------------------------------------ C24
\* The first cap members of the class in declared order, all without a cap.
FirstMembers(cls, cap) ==
    IF cap = None THEN Members(cls)
    ELSE SubSeq(Members(cls), 1, Min({cap[1], Len(Members(cls))}))

\* The number of assignments of one of the first cap members to each class.
RECURSIVE ProductOfCounts(_, _)
ProductOfCounts(group, cap) ==
    IF group = << >> THEN 1
    ELSE Len(FirstMembers(Head(group), cap)) * ProductOfCounts(Tail(group), cap)

\* C24: for every dimension subset and every cap
\* generate_combinations_for_group returns exactly the cross product of the
\* first cap variants of each dimension when a cap is supplied, and of all
\* variants otherwise: each assignment once, each spanning exactly the
\* subset's dimensions, the count being the product of the variant counts.
C24_CrossProductOfFirst ==
    (/\ mode = "generate"
     /\ call.fn = "generate_combinations_for_group"
     /\ call.max_per_dimension /= None => call.max_per_dimension[1] >= 0) =>
       LET group == call.group
           cap == call.max_per_dimension
           combos == returned.value
       IN  /\ Len(combos) = ProductOfCounts(group, cap)
           /\ \A i \in DOMAIN combos :
                 /\ {combos[i][x][1] : x \in DOMAIN combos[i]} = Range(group)
                 /\ Len(combos[i]) = Len(group)
                 /\ \A x \in DOMAIN combos[i] :
                       combos[i][x][2]
                          \in Range(FirstMembers(combos[i][x][1], cap))
           /\ \A i, j \in DOMAIN combos :
                 i /= j => Range(combos[i]) /= Range(combos[j])

\* ------------------------------------------------------------------ C25
\* The (size, group) pairs in the order generate_all_combinations visits
\* them, from size on.
RECURSIVE SubsetsFrom(_, _)
SubsetsFrom(size, last) ==
    IF size > last THEN << >>
    ELSE [j \in 1..Len(generate_dimension_groups(size)) |->
             [size |-> size, group |-> generate_dimension_groups(size)[j]]]
         \o SubsetsFrom(size + 1, last)

\* The output of the first m subsets that has the size k, concatenated.
RECURSIVE OutputOf(_, _, _, _)
OutputOf(subsets, m, k, cap) ==
    IF m = 0 THEN << >>
    ELSE OutputOf(subsets, m - 1, k, cap)
         \o (IF subsets[m].size = k
                THEN generate_combinations_for_group(subsets[m].group, cap)
                ELSE << >>)

\* The number of combinations of the first m subsets.
RECURSIVE TotalOf(_, _, _)
TotalOf(subsets, m, cap) ==
    IF m = 0 THEN 0
    ELSE TotalOf(subsets, m - 1, cap)
         + Len(generate_combinations_for_group(subsets[m].group, cap))

C26_DistinctKeysPerGroup ==
    (mode = "generate" /\ call.fn = "generate_all_combinations") =>
       \A k \in DOMAIN returned.value :
          LET combos == returned.value[k] IN
             /\ Cardinality({get_hash(combos[i]) : i \in DOMAIN combos})
                   = Len(combos)
             /\ \A i \in DOMAIN combos :
                   /\ Len(combos[i]) = k
                   /\ Cardinality({combos[i][x][1] : x \in DOMAIN combos[i]})
                         = k

\* All combinations over the registry in use, without cap or ceiling.
C26_Witness ==
    /\ mode = "generate"
    /\ call.fn = "generate_all_combinations"
    /\ call.max_per_dimension = None
    /\ call.max_total_combinations = None
    /\ DOMAIN returned.value = 2..NumDims
    /\ Len(returned.value[2]) > Len(generate_dimension_groups(2))

\* ------------------------------------------------------------------ C27
\* The dicts with the items of c in any insertion order.
Reorderings(c) ==
    {[i \in 1..Len(c) |-> c[p[i]]] :
        p \in {q \in [1..Len(c) -> 1..Len(c)] :
                 \A a, b \in 1..Len(c) : a /= b => q[a] /= q[b]}}

\* The "<dimension>:<variant>" pairs of c by ascending dimension name.
SortedPairs(c) ==
    LET IsKey(name) == \E i \in DOMAIN c : c[i][1] = name
        names == SelectSeq(SortedClassNames, IsKey)
    IN  [i \in 1..Len(names) |->
            LET item == CHOOSE x \in Range(c) : x[1] = names[i] IN
               item[1] \o ":" \o item[2][2]]

\* C27: get_hash is invariant under construction order: combinations with
\* the same dimension-to-variant assignments, inserted in any order, have
\* the same canonical key, the sorted "<dimension>:<variant>" pairs joined
\* by "|".
C27_HashOrderInvariant ==
    (mode = "generate" /\ call.fn = "get_hash") =>
       /\ \A c \in Reorderings(call.dimensions) :
             get_hash(c) = returned.value
       /\ returned.value = Join(SortedPairs(call.dimensions), "|")

\* Three dimensions inserted in an order that is neither the registry's nor
\* the sorted one.
C27_Witness ==
    /\ mode = "generate"
    /\ call.fn = "get_hash"
    /\ Len(call.dimensions) = 3
    /\ call.dimensions[1][1] = "StructuralArchitecture"
    /\ call.dimensions[2][1] = "FormatVariation"
    /\ returned.value = "FormatVariation:xml|ModelOrchestration:single|"
                        \o "StructuralArchitecture:flat"

\* ------------------------------------------------------------------ C28
\* C28: generate_sample_combinations(samples) returns, for each size k from
\* the generator's minimum to its maximum, min(samples, C(n, k)) distinct
\* dimension-subsets chosen without replacement, each as one combination
\* that takes the first variant of every dimension of the subset.
C28_SampleWithoutReplacement ==
    (/\ mode = "generate"
     /\ call.fn = "generate_sample_combinations"
     /\ call.samples_per_size >= 0) =>
       /\ returned.raised = ""
       /\ LET out == returned.value IN
             /\ DOMAIN out =
                   generator.min_dimensions..generator.max_dimensions
             /\ \A k \in DOMAIN out :
                   /\ Len(out[k]) =
                         Min({call.samples_per_size,
                              Binomial(Len(Registry), k)})
                   /\ \A i \in DOMAIN out[k] :
                         /\ Len(out[k][i]) = k
                         /\ \A x \in DOMAIN out[k][i] :
                               /\ out[k][i][x][1] \in Registered
                               /\ out[k][i][x][2] =
                                     Members(out[k][i][x][1])[1]
                   /\ \A i, j \in DOMAIN out[k] :
                         i /= j =>
                            {out[k][i][x][1] : x \in DOMAIN out[k][i]}
                               /= {out[k][j][x][1] : x \in DOMAIN out[k][j]}

\* More samples asked than there are subsets of size 2, fewer than asked
\* are returned; the sample is not in the order of the groups.
C28_Witness ==
    /\ mode = "generate"
    /\ call.fn = "generate_sample_combinations"
    /\ call.samples_per_size = MaxSamples
    /\ generator = NewGenerator(2, None)
    /\ returned.raised = ""
    /\ Len(returned.value[2]) = Binomial(Len(Registry), 2)
    /\ Len(returned.value[2]) < MaxSamples
    /\ returned.value[2][1]
          /= generate_combinations_for_group(
                generate_dimension_groups(2)[1], Some(1))[1]

\* ------------------------------------------------------------------ C29
\* A size, cap, ceiling or sample count that is not a usable positive
\* number.
MalformedInput ==
    \/ call.fn = "generate_dimension_groups"
       /\ (call.size < 2 \/ call.size > Len(Registry))
    \/ call.fn = "generate_combinations_for_group"
       /\ call.max_per_dimension /= None
       /\ call.max_per_dimension[1] <= 0
    \/ call.fn = "generate_all_combinations"
       /\ \/ call.max_per_dimension /= None
             /\ call.max_per_dimension[1] <= 0
          \/ call.max_total_combinations /= None
             /\ call.max_total_combinations[1] <= 0
    \/ call.fn = "generate_sample_combinations"
       /\ call.samples_per_size <= 0

\* A list or dict without a combination in it.
EmptyOutput ==
    \/ returned.value = << >>
    \/ /\ call.fn \in {"generate_all_combinations",
                       "generate_sample_combinations"}
       /\ \A k \in DOMAIN returned.value : returned.value[k] = << >>

\* C29: no generator call raises, and malformed input (a size out of range,
\* a cap, ceiling or sample count that is zero or negative) gives empty
\* output.
C29_MalformedGivesEmpty ==
    (mode = "generate" /\ call /= NoCall) =>
       /\ returned.raised = ""
       /\ MalformedInput => EmptyOutput

====
